---- MODULE Spec2Model ----
(***************************************************************************)
(* The glTF preview panel manager of gltf-vscode (src/src/gltfPreview.ts): *)
(* the registry of preview panels, the per-panel file watchers, the        *)
(* webview message router and the active-panel tracker, as one state       *)
(* machine whose actions are the handlers the host calls one at a time.    *)
(***************************************************************************)
EXTENDS Naturals, Sequences, FiniteSets, TLC

(***************************************************************************)
(* JavaScript strings the code inspects character by character are         *)
(* sequences of one-character strings.                                     *)
(***************************************************************************)
Range(s) == {s[i] : i \in 1..Len(s)}

StartsWith(s, prefix) ==
    /\ Len(s) >= Len(prefix)
    /\ SubSeq(s, 1, Len(prefix)) = prefix

DataPrefix == <<"d", "a", "t", "a", ":">>

Slash == "/"

\* s.split("/"): the segments between separators, empty ones included.
RECURSIVE SplitFrom(_, _, _)
SplitFrom(s, i, cur) ==
    IF i > Len(s) THEN <<cur>>
    ELSE IF s[i] = Slash THEN <<cur>> \o SplitFrom(s, i + 1, <<>>)
    ELSE SplitFrom(s, i + 1, Append(cur, s[i]))

Split(s) == SplitFrom(s, 1, <<>>)

RECURSIVE JoinSegs(_)
JoinSegs(segs) ==
    IF Len(segs) = 0 THEN <<>>
    ELSE IF Len(segs) = 1 THEN segs[1]
    ELSE segs[1] \o <<Slash>> \o JoinSegs(Tail(segs))

Dot == <<".">>

DotDot == <<".", ".">>

\* path.normalize's segment pass: drops "" and ".", resolves "..".
RECURSIVE NormalizeSegs(_, _, _)
NormalizeSegs(segs, acc, isAbsolute) ==
    IF Len(segs) = 0 THEN acc
    ELSE LET seg == Head(segs)
             rest == Tail(segs)
         IN  IF seg = <<>> \/ seg = Dot THEN NormalizeSegs(rest, acc, isAbsolute)
             ELSE IF seg = DotDot
                  THEN IF Len(acc) > 0 /\ acc[Len(acc)] # DotDot
                       THEN NormalizeSegs(rest, SubSeq(acc, 1, Len(acc) - 1), isAbsolute)
                       ELSE IF isAbsolute
                            THEN NormalizeSegs(rest, acc, isAbsolute)
                            ELSE NormalizeSegs(rest, Append(acc, seg), isAbsolute)
                  ELSE NormalizeSegs(rest, Append(acc, seg), isAbsolute)

PathNormalize(p) ==
    IF Len(p) = 0 THEN Dot
    ELSE LET isAbsolute == p[1] = Slash
             trailing == p[Len(p)] = Slash
             body == JoinSegs(NormalizeSegs(Split(p), <<>>, isAbsolute))
             body1 == IF Len(body) = 0 /\ ~isAbsolute THEN Dot ELSE body
             body2 == IF Len(body1) > 0 /\ trailing THEN Append(body1, Slash) ELSE body1
         IN  IF isAbsolute THEN <<Slash>> \o body2 ELSE body2

\* path.join(a, b): the non-empty arguments joined by "/", then normalized.
PathJoin(a, b) ==
    IF Len(a) = 0 /\ Len(b) = 0 THEN Dot
    ELSE IF Len(b) = 0 THEN PathNormalize(a)
    ELSE IF Len(a) = 0 THEN PathNormalize(b)
    ELSE PathNormalize(a \o <<Slash>> \o b)

\* The index of the last "/" of p, 0 when there is none.
RECURSIVE LastSlash(_, _)
LastSlash(p, i) ==
    IF i = 0 THEN 0
    ELSE IF p[i] = Slash THEN i
    ELSE LastSlash(p, i - 1)

\* path.dirname of a path without a trailing separator.
PathDirname(p) ==
    LET k == LastSlash(p, Len(p))
    IN  IF k = 0 THEN Dot
        ELSE IF k = 1 THEN <<Slash>>
        ELSE SubSeq(p, 1, k - 1)

PathBasename(p) == SubSeq(p, LastSlash(p, Len(p)) + 1, Len(p))

(***************************************************************************)
(* Parsed JSON values.  A node is [t, s, kids]: t is the JavaScript kind,  *)
(* s the characters of a string, kids the own enumerable properties of an  *)
(* object or array in for..in order, each [k |-> key, v |-> node].         *)
(***************************************************************************)
Str(chars) == [t |-> "string", s |-> chars, kids |-> <<>>]

Obj(kids) == [t |-> "object", s |-> <<>>, kids |-> kids]

Arr(kids) == [t |-> "array", s |-> <<>>, kids |-> kids]

KV(key, value) == [k |-> key, v |-> value]

Undefined == [t |-> "undefined", s |-> <<>>, kids |-> <<>>]

\* typeof value === "object"
TypeofObject(node) == node.t \in {"object", "array", "null"}

\* typeof value === "string"
TypeofString(node) == node.t = "string"

(***************************************************************************)
(* The documents an editor can hold, as their text.                        *)
(***************************************************************************)
TextV2 == "{\"asset\":{\"version\":\"2.0\"},\"images\":[{\"uri\":\"tex.png\"}]}"

TextV1 == "{\"asset\":{\"version\":\"1.0\"},\"buffers\":{\"b\":{\"uri\":\"data:,\"}},\"images\":[{\"uri\":\"tex.png\"},{\"uri\":\"./b.bin\"}]}"

TextBad == "{\"asset\":"

TextEmbedded == "{\"asset\":{\"version\":\"2.0\"},\"buffers\":[{\"uri\":\"data:,\"}]}"

Texts == {TextV2, TextV1, TextBad}

TexPng == <<"t", "e", "x", ".", "p", "n", "g">>

DotBBin == <<".", "/", "b", ".", "b", "i", "n">>

DataUri == <<"d", "a", "t", "a", ":", ",">>

TreeV2 ==
    Obj(<< KV("asset", Obj(<< KV("version", Str(<<"2", ".", "0">>)) >>)),
           KV("images", Arr(<< KV("0", Obj(<< KV("uri", Str(TexPng)) >>)) >>)) >>)

TreeV1 ==
    Obj(<< KV("asset", Obj(<< KV("version", Str(<<"1", ".", "0">>)) >>)),
           KV("buffers", Obj(<< KV("b", Obj(<< KV("uri", Str(DataUri)) >>)) >>)),
           KV("images", Arr(<< KV("0", Obj(<< KV("uri", Str(TexPng)) >>)),
                               KV("1", Obj(<< KV("uri", Str(DotBBin)) >>)) >>)) >>)

TreeEmbedded ==
    Obj(<< KV("asset", Obj(<< KV("version", Str(<<"2", ".", "0">>)) >>)),
           KV("buffers", Arr(<< KV("0", Obj(<< KV("uri", Str(DataUri)) >>)) >>)) >>)

Loc(from, to) == [value |-> [pos |-> from], valueEnd |-> [pos |-> to]]

PointersV2 ==
    [ptr \in {"", "/asset", "/asset/version", "/images", "/images/0", "/images/0/uri"} |->
        CASE ptr = "" -> Loc(0, 56)
          [] ptr = "/asset" -> Loc(9, 26)
          [] ptr = "/asset/version" -> Loc(20, 25)
          [] ptr = "/images" -> Loc(36, 55)
          [] ptr = "/images/0" -> Loc(37, 54)
          [] ptr = "/images/0/uri" -> Loc(44, 53)]

PointersV1 ==
    [ptr \in {"", "/asset", "/asset/version", "/buffers", "/buffers/b", "/buffers/b/uri",
              "/images", "/images/0", "/images/0/uri", "/images/1", "/images/1/uri"} |->
        CASE ptr = "" -> Loc(0, 107)
          [] ptr = "/asset" -> Loc(9, 26)
          [] ptr = "/asset/version" -> Loc(20, 25)
          [] ptr = "/buffers" -> Loc(37, 59)
          [] ptr = "/buffers/b" -> Loc(42, 58)
          [] ptr = "/buffers/b/uri" -> Loc(49, 57)
          [] ptr = "/images" -> Loc(69, 106)
          [] ptr = "/images/0" -> Loc(70, 87)
          [] ptr = "/images/0/uri" -> Loc(77, 86)
          [] ptr = "/images/1" -> Loc(88, 105)
          [] ptr = "/images/1/uri" -> Loc(95, 104)]

PointersEmbedded ==
    [ptr \in {"", "/asset", "/asset/version", "/buffers", "/buffers/0", "/buffers/0/uri"} |->
        CASE ptr = "" -> Loc(0, 56)
          [] ptr = "/asset" -> Loc(9, 26)
          [] ptr = "/asset/version" -> Loc(20, 25)
          [] ptr = "/buffers" -> Loc(37, 55)
          [] ptr = "/buffers/0" -> Loc(38, 54)
          [] ptr = "/buffers/0/uri" -> Loc(45, 53)]

\* parseJsonMap: the tree (or the failure sentinel) and the position map.
parseJsonMap(content) ==
    CASE content = TextV2 -> [data |-> TreeV2, pointers |-> PointersV2]
      [] content = TextV1 -> [data |-> TreeV1, pointers |-> PointersV1]
      [] content = TextEmbedded -> [data |-> TreeEmbedded, pointers |-> PointersEmbedded]
      [] OTHER -> [data |-> Undefined, pointers |-> [ptr \in {} |-> Loc(0, 0)]]

\* The number of characters of a document text.
TextLength(content) ==
    CASE content = TextV2 -> 56
      [] content = TextV1 -> 107
      [] content = TextEmbedded -> 56
      [] OTHER -> 9

Min(a, b) == IF a <= b THEN a ELSE b

\* document.positionAt(offset) of a one-line document: the offset, clamped.
positionAt(content, offset) ==
    [line |-> 0, character |-> Min(offset, TextLength(content))]

(***************************************************************************)
(* The closure `watch` of watchFiles, as the list of the uri values it     *)
(* calls fs.watch for, in the order it reaches them.                       *)
(***************************************************************************)
RECURSIVE watchKids(_)
watch(object) ==
    IF TypeofObject(object) THEN watchKids(object.kids) ELSE <<>>

watchKids(kids) ==
    IF Len(kids) = 0 THEN <<>>
    ELSE LET key == Head(kids).k
             value == Head(kids).v
             here == IF key = "uri" /\ TypeofString(value) /\ ~StartsWith(value.s, DataPrefix)
                     THEN <<value.s>>
                     ELSE IF TypeofObject(value) THEN watch(value)
                     ELSE <<>>
         IN  here \o watchKids(Tail(kids))

(***************************************************************************)
(* Bounds of the model.                                                    *)
(***************************************************************************)
\* updatePanel runs of one panel.
MaxUpdates == 2

(***************************************************************************)
(* The files.  Two glTF documents of one directory are open in editors:    *)
(* a.gltf, which the user edits among Texts, and b.gltf, which keeps one   *)
(* self-contained text.  tex.png may or may not exist on disk.             *)
(***************************************************************************)
FileA == <<"/", "m", "/", "a", ".", "g", "l", "t", "f">>

FileB == <<"/", "m", "/", "b", ".", "g", "l", "t", "f">>

Documents == {FileA, FileB}

TexPngPath == <<"/", "m", "/", "t", "e", "x", ".", "p", "n", "g">>

BBinPath == <<"/", "m", "/", "b", ".", "b", "i", "n">>

\* The referenced files that come and go.
Volatile == {TexPngPath}

\* The texts the editor of document f can hold.
TextsOf(f) == IF f = FileA THEN Texts ELSE {TextEmbedded}

\* JavaScript undefined where a panel is expected.
None == 0

\* jsonPointer values a select message can carry.
JsonPointers == {"/images/0/uri", "/buffers/b/uri"}

Messages ==
    [command : {"select"}, jsonPointer : JsonPointers]
        \cup [command : {"setContext", "showErrorMessage", "showWarningMessage",
                         "onReady", "bogus"},
              jsonPointer : {""}]

VARIABLES
    _panels,        \* this._panels: fileName -> panel
    panelInfo,      \* the GltfPreviewPanelInfo objects that are not disposed
    _activePanel,   \* this._activePanel
    fsWatchers,     \* the fs.FSWatcher objects that are open
    documents,      \* each editor's document.getText()
    disk,           \* the files that exist
    out,            \* what the last handler emitted, in order
    turn            \* the event the last handler handled

vars == <<_panels, panelInfo, _activePanel, fsWatchers, documents, disk, out, turn>>

\* An effect a handler has on the host: e the call, p the panel it is about,
\* a its argument, r a selection range.
Effect(e, p, a, r) == [e |-> e, p |-> p, a |-> a, r |-> r]

\* The program's own state, threaded through the methods; exc is the
\* exception in flight ("" when there is none).
World ==
    [_panels |-> _panels, panelInfo |-> panelInfo, _activePanel |-> _activePanel,
     fsWatchers |-> fsWatchers, out |-> <<>>, exc |-> ""]

Emit(w, effect) == [w EXCEPT !.out = Append(@, effect)]

Throw(w, what) == [w EXCEPT !.exc = what]

\* An uncaught exception reaches the host, which reports it; the handler is over.
Caught(w) ==
    IF w.exc = "" THEN w
    ELSE [Emit(w, Effect("throw", None, w.exc, <<>>)) EXCEPT !.exc = ""]

(***************************************************************************)
(* The methods of GltfPreview, each from a world to the world it leaves.   *)
(***************************************************************************)
\* An unwatchFiles that empties the list and closes nothing.
unwatchFiles_noClose(w, panel) ==
    [w EXCEPT !.panelInfo[panel]._watchers = <<>>]

\* An unwatchFiles that fails when the panel has no watcher to close.
unwatchFiles_failsWhenEmpty(w, panel) ==
    IF w.panelInfo[panel]._watchers = <<>> THEN Throw(w, "ERR_CLOSED")
    ELSE [w EXCEPT !.fsWatchers = @ \ Range(w.panelInfo[panel]._watchers),
                   !.panelInfo[panel]._watchers = <<>>]

\* unwatchFiles: closes every watcher of the panel and empties the list.
unwatchFiles(w, panel) ==
    [w EXCEPT !.fsWatchers = @ \ Range(w.panelInfo[panel]._watchers),
              !.panelInfo[panel]._watchers = <<>>]

\* panel._watchers.push(fs.watch(filePath, listener)).  fs.watch throws ENOENT
\* for a path that does not exist.  The watcher object is named by the panel,
\* the rebuild and the place in the list it was made for.
pushWatch(w, panel, filePath, kind) ==
    IF filePath \notin disk THEN Throw(w, "ENOENT")
    ELSE LET info == w.panelInfo[panel]
             watcher == [owner |-> panel, gen |-> info.updates,
                         idx |-> Len(info._watchers) + 1,
                         path |-> filePath, kind |-> kind]
         IN  [w EXCEPT !.fsWatchers = @ \cup {watcher},
                       !.panelInfo[panel]._watchers = Append(@, watcher)]

\* The calls of fs.watch the closure `watch` makes, until one throws.
RECURSIVE watchReferences(_, _, _, _)
watchReferences(w, panel, documentDirectoryPath, uris) ==
    IF Len(uris) = 0 THEN w
    ELSE LET filePath == PathJoin(documentDirectoryPath, Head(uris))
             w1 == pushWatch(w, panel, filePath, "reference")
         IN  IF w1.exc # "" THEN w1
             ELSE watchReferences(w1, panel, documentDirectoryPath, Tail(uris))

watchFiles(w, panel) ==
    LET w0 == unwatchFiles(w, panel)
        documentFilePath == w0.panelInfo[panel].textEditor
        w1 == pushWatch(w0, panel, documentFilePath, "document")
        documentDirectoryPath == PathDirname(documentFilePath)
    IN  IF w1.exc # "" THEN w1
        ELSE watchReferences(w1, panel, documentDirectoryPath,
                             watch(w1.panelInfo[panel]._jsonMap.data))

\* The member `name` of an object node, Undefined when it has none.
Member(node, name) ==
    IF node.t \in {"object", "array"} /\ \E i \in 1..Len(node.kids) : node.kids[i].k = name
    THEN node.kids[CHOOSE i \in 1..Len(node.kids) : node.kids[i].k = name].v
    ELSE Undefined

\* JavaScript truthiness of a node.
Truthy(node) ==
    CASE node.t \in {"undefined", "null"} -> FALSE
      [] node.t = "string" -> Len(node.s) > 0
      [] OTHER -> TRUE

\* value[0]: the first character of a string, the member "0" of an object.
Index0(node) ==
    IF node.t = "string"
    THEN IF Len(node.s) > 0 THEN Str(<<node.s[1]>>) ELSE Undefined
    ELSE Member(node, "0")

\* A discriminator with no baseline for a document that has no tree.
gltfMajorVersion_noBaseline(gltf) ==
    LET asset == Member(gltf, "asset")
        version == Member(asset, "version")
    IN  IF ~Truthy(gltf) THEN 0
        ELSE IF /\ Truthy(asset)
                /\ Truthy(version)
                /\ Index0(version) = Str(<<"2">>)
             THEN 2
             ELSE 1

gltfMajorVersion(gltf) ==
    LET asset == Member(gltf, "asset")
        version == Member(asset, "version")
    IN  IF /\ Truthy(gltf)
           /\ Truthy(asset)
           /\ Truthy(version)
           /\ Index0(version) = Str(<<"2">>)
        THEN 2
        ELSE 1

\* formatHtml: the parts of the markup that depend on the panel.
formatHtml(majorVersion, gltfContent, gltfRootPath, gltfFileName) ==
    [gltfMajorVersion |-> majorVersion, gltf |-> gltfContent,
     gltfRootPath |-> gltfRootPath, gltfFileName |-> gltfFileName]

\* An updatePanel that keeps the position map of the panel's first parse.
updatePanel_keepMap(w, panel, gltfFilePath, gltfContent) ==
    LET map == IF w.panelInfo[panel].updates = 0
               THEN parseJsonMap(gltfContent)
               ELSE w.panelInfo[panel]._jsonMap
        gltfRootPath == Append(PathDirname(gltfFilePath), Slash)
        gltfFileName == PathBasename(gltfFilePath)
        w1 == [w EXCEPT !.panelInfo[panel]._jsonMap = map,
                        !.panelInfo[panel].title = gltfFileName,
                        !.panelInfo[panel].html =
                            formatHtml(gltfMajorVersion(parseJsonMap(gltfContent).data),
                                       gltfContent, gltfRootPath, gltfFileName),
                        !.panelInfo[panel].updates = @ + 1]
    IN  watchFiles(w1, panel)

\* An updatePanel that takes the panel's new markup for a webview not ready.
updatePanel_resetsReady(w, panel, gltfFilePath, gltfContent) ==
    LET map == parseJsonMap(gltfContent)
        gltfRootPath == Append(PathDirname(gltfFilePath), Slash)
        gltfFileName == PathBasename(gltfFilePath)
        w1 == [w EXCEPT !.panelInfo[panel]._jsonMap = map,
                        !.panelInfo[panel].title = gltfFileName,
                        !.panelInfo[panel].html =
                            formatHtml(gltfMajorVersion(map.data), gltfContent,
                                       gltfRootPath, gltfFileName),
                        !.panelInfo[panel].ready = "false",
                        !.panelInfo[panel].updates = @ + 1]
    IN  watchFiles(w1, panel)

updatePanel(w, panel, gltfFilePath, gltfContent) ==
    LET map == parseJsonMap(gltfContent)
        gltfRootPath == Append(PathDirname(gltfFilePath), Slash)
        gltfFileName == PathBasename(gltfFilePath)
        w1 == [w EXCEPT !.panelInfo[panel]._jsonMap = map,
                        !.panelInfo[panel].title = gltfFileName,
                        !.panelInfo[panel].html =
                            formatHtml(gltfMajorVersion(map.data), gltfContent,
                                       gltfRootPath, gltfFileName),
                        !.panelInfo[panel].updates = @ + 1]
    IN  watchFiles(w1, panel)

\* A setActivePanel without the comparison with the tracked panel.
setActivePanel_noCompare(w, activePanel) ==
    LET w1 == Emit([w EXCEPT !._activePanel = activePanel],
                   Effect("onDidChangeActivePanel", activePanel, "", <<>>))
    IN  IF activePanel # None
        THEN Emit(w1, Effect("postMessage", activePanel, "updateDebugMode", <<>>))
        ELSE Emit(w1, Effect("executeCommand", None, "setContext gltfDebugActive false", <<>>))

setActivePanel(w, activePanel) ==
    IF w._activePanel # activePanel
    THEN LET w1 == Emit([w EXCEPT !._activePanel = activePanel],
                        Effect("onDidChangeActivePanel", activePanel, "", <<>>))
         IN  IF activePanel # None
             THEN Emit(w1, Effect("postMessage", activePanel, "updateDebugMode", <<>>))
             ELSE Emit(w1, Effect("executeCommand", None, "setContext gltfDebugActive false", <<>>))
    ELSE w

\* Object.values(this._panels).find(panel => panel.active)
FindActive(w) ==
    LET hits == {f \in DOMAIN w._panels : w.panelInfo[w._panels[f]].active}
    IN  IF hits = {} THEN None
        ELSE w._panels[CHOOSE f \in hits : TRUE]

updateActivePanel(w) == setActivePanel(w, FindActive(w))

\* webview.html before the first updatePanel.
NoHtml == [gltfMajorVersion |-> 0, gltf |-> "", gltfRootPath |-> <<>>, gltfFileName |-> <<>>]

\* The object createWebviewPanel returns, with the fields openPanel sets.
NewPanel(gltfFilePath) ==
    [textEditor |-> gltfFilePath, ready |-> "undefined",
     _jsonMap |-> [data |-> Undefined, pointers |-> [ptr \in {} |-> Loc(0, 0)]],
     _watchers |-> <<>>, title |-> <<>>,
     html |-> NoHtml,
     updates |-> 0, active |-> FALSE]

\* m with key k bound to v.
Put(m, k, v) == [x \in DOMAIN m \cup {k} |-> IF x = k THEN v ELSE m[x]]

\* m without key k.
Delete(m, k) == [x \in DOMAIN m \ {k} |-> m[x]]

\* The panels something still refers to.
Referenced(w) ==
    DOMAIN w.panelInfo \cup {w._activePanel} \cup {watcher.owner : watcher \in w.fsWatchers}

\* createWebviewPanel returns an object nothing refers to yet: objects are
\* numbered, and a number is taken again once nothing refers to its object.
createWebviewPanel(w) ==
    CHOOSE panel \in 1..(Cardinality(Referenced(w)) + 1) :
        /\ panel \notin Referenced(w)
        /\ \A other \in 1..(panel - 1) : other \in Referenced(w)

\* A lookup that never finds the panel.
hasPanel_never(w, gltfFilePath) == FALSE

\* let panel = this._panels[gltfFilePath]; if (!panel)
hasPanel(w, gltfFilePath) == gltfFilePath \in DOMAIN w._panels

openPanel(w, gltfFilePath) ==
    LET isNew == ~hasPanel(w, gltfFilePath)
        panel == IF isNew THEN createWebviewPanel(w) ELSE w._panels[gltfFilePath]
        w1 == IF isNew
              THEN Emit([w EXCEPT !.panelInfo = Put(@, panel, NewPanel(gltfFilePath)),
                                  !._panels = Put(@, gltfFilePath, panel)],
                        Effect("createWebviewPanel", panel, "", <<>>))
              ELSE w
        w2 == updatePanel(w1, panel, gltfFilePath, documents[gltfFilePath])
    IN  IF w2.exc # "" THEN w2
        ELSE setActivePanel(Emit(w2, Effect("reveal", panel, "", <<>>)), panel)

\* A disposal callback that leaves the panel's watchers open.
onDidDispose_noUnwatch(w, gltfFilePath) ==
    updateActivePanel([w EXCEPT !._panels = Delete(@, gltfFilePath)])

\* A disposal callback that does not look for the active panel again.
onDidDispose_noActiveUpdate(w, gltfFilePath) ==
    LET w1 == unwatchFiles(w, w._panels[gltfFilePath])
    IN  [w1 EXCEPT !._panels = Delete(@, gltfFilePath)]

\* The onDidDispose callback of the panel opened for gltfFilePath.
onDidDispose(w, gltfFilePath) ==
    LET w1 == unwatchFiles(w, w._panels[gltfFilePath])
        w2 == [w1 EXCEPT !._panels = Delete(@, gltfFilePath)]
    IN  updateActivePanel(w2)

\* case 'select'
caseSelect(w, panel, message) ==
    LET pointers == w.panelInfo[panel]._jsonMap.pointers
        content == documents[w.panelInfo[panel].textEditor]
    IN  IF message.jsonPointer \notin DOMAIN pointers
        THEN Throw(w, "TypeError")
        ELSE LET pointer == pointers[message.jsonPointer]
                 range == <<positionAt(content, pointer.value.pos),
                            positionAt(content, pointer.valueEnd.pos)>>
             IN  Emit(w, Effect("executeCommand", panel, "gltf.openGltfSelection", range))

\* case 'setContext'
caseSetContext(w, panel) == Emit(w, Effect("executeCommand", panel, "setContext", <<>>))

\* case 'showErrorMessage'
caseShowErrorMessage(w, panel) == Emit(w, Effect("showErrorMessage", panel, "", <<>>))

\* case 'showWarningMessage'
caseShowWarningMessage(w, panel) == Emit(w, Effect("showWarningMessage", panel, "", <<>>))

\* An onReady case that fires the event and leaves the flag alone.
caseOnReady_noFlag(w, panel) ==
    Emit(w, Effect("onDidChangePanelReady", panel, "", <<>>))

\* case 'onReady'
caseOnReady(w, panel) ==
    Emit([w EXCEPT !.panelInfo[panel].ready = "true"],
         Effect("onDidChangePanelReady", panel, "", <<>>))

\* default
caseDefault(w) == Throw(w, "Unknown command")

\* The listener updatePanel registers: onDidReceiveMessage(panel, message).
onDidReceiveMessage(w, panel, message) ==
    CASE message.command = "select" -> caseSelect(w, panel, message)
      [] message.command = "setContext" -> caseSetContext(w, panel)
      [] message.command = "showErrorMessage" -> caseShowErrorMessage(w, panel)
      [] message.command = "showWarningMessage" -> caseShowWarningMessage(w, panel)
      [] message.command = "onReady" -> caseOnReady(w, panel)
      [] OTHER -> caseDefault(w)

\* webview.onDidReceiveMessage's emitter: every registered listener is called
\* with the message, and what a listener throws is reported, not propagated.
RECURSIVE fireMessage(_, _, _, _)
fireMessage(w, panel, message, listeners) ==
    IF listeners = 0 THEN w
    ELSE fireMessage(Caught(onDidReceiveMessage(w, panel, message)),
                     panel, message, listeners - 1)

(***************************************************************************)
(* The state machine: one action per event the host delivers.              *)
(***************************************************************************)
NoMessage == [command |-> "", jsonPointer |-> ""]

\* The event handled: the handler, the panel it ran for, the message it got.
Turn(op, p, message) == [op |-> op, p |-> p, message |-> message]

Init ==
    /\ _panels = << >>
    /\ panelInfo = << >>
    /\ _activePanel = None
    /\ fsWatchers = {}
    /\ documents \in {d \in [Documents -> Texts \cup {TextEmbedded}] :
                         \A f \in Documents : d[f] \in TextsOf(f)}
    /\ disk \in {Documents \cup {BBinPath} \cup r : r \in SUBSET Volatile}
    /\ out = <<>>
    /\ turn = Turn("init", None, NoMessage)

\* The handler is over: its world becomes the state.
Commit(w) ==
    /\ _panels' = w._panels
    /\ panelInfo' = w.panelInfo
    /\ _activePanel' = w._activePanel
    /\ fsWatchers' = w.fsWatchers
    /\ out' = w.out

\* The preview command runs for the editor of document f.
OpenPanel(f) ==
    /\ f \in DOMAIN _panels => panelInfo[_panels[f]].updates < MaxUpdates
    /\ LET w == Caught(openPanel(World, f))
       IN  /\ Commit(w)
           /\ turn' = Turn("openPanel", w._panels[f], NoMessage)
    /\ UNCHANGED <<documents, disk>>

\* The user closes the panel p; the host then drops the object.
Dispose(p) ==
    /\ p \in DOMAIN panelInfo
    /\ LET w == Caught(onDidDispose(World, panelInfo[p].textEditor))
       IN  /\ Commit([w EXCEPT !.panelInfo = Delete(@, p)])
           /\ turn' = Turn("dispose", p, NoMessage)
    /\ UNCHANGED <<documents, disk>>

\* The host reports a new view state of panel p; at most one panel is active.
ViewStateChanged(p, active) ==
    /\ p \in DOMAIN panelInfo
    /\ active => \A q \in DOMAIN panelInfo \ {p} : ~panelInfo[q].active
    /\ LET w0 == [World EXCEPT !.panelInfo[p].active = active]
           w == Caught(updateActivePanel(w0))
       IN  /\ Commit(w)
           /\ turn' = Turn("viewState", p, NoMessage)
    /\ UNCHANGED <<documents, disk>>

\* The watcher of a document file fires.
DocumentWatchFired(watcher) ==
    /\ watcher \in fsWatchers
    /\ watcher.kind = "document"
    /\ panelInfo[watcher.owner].updates < MaxUpdates
    /\ LET w == Caught(updatePanel(World, watcher.owner, watcher.path, documents[watcher.path]))
       IN  /\ Commit(w)
           /\ turn' = Turn("documentWatch", watcher.owner, NoMessage)
    /\ UNCHANGED <<documents, disk>>

\* The watcher of a referenced file fires.
ReferenceWatchFired(watcher) ==
    /\ watcher \in fsWatchers
    /\ watcher.kind = "reference"
    /\ Commit(Emit(World, Effect("postMessage", watcher.owner, "refresh", <<>>)))
    /\ turn' = Turn("referenceWatch", watcher.owner, NoMessage)
    /\ UNCHANGED <<documents, disk>>

\* The webview of panel p posts a message.
ReceiveMessage(p, message) ==
    /\ p \in DOMAIN panelInfo
    /\ Commit(fireMessage(World, p, message, panelInfo[p].updates))
    /\ turn' = Turn("message", p, message)
    /\ UNCHANGED <<documents, disk>>

\* The user edits the text of document f in its editor.
EditDocument(f, content) ==
    /\ content \in TextsOf(f)
    /\ documents[f] # content
    /\ documents' = [documents EXCEPT ![f] = content]
    /\ turn' = Turn("edit", None, NoMessage)
    /\ out' = <<>>
    /\ UNCHANGED <<_panels, panelInfo, _activePanel, fsWatchers, disk>>

\* A referenced file appears on disk or goes away.
ResourceChanged(path) ==
    /\ disk' = IF path \in disk THEN disk \ {path} ELSE disk \cup {path}
    /\ turn' = Turn("disk", None, NoMessage)
    /\ out' = <<>>
    /\ UNCHANGED <<_panels, panelInfo, _activePanel, fsWatchers, documents>>

Next ==
    \/ \E f \in Documents : OpenPanel(f)
    \/ \E p \in DOMAIN panelInfo : Dispose(p)
    \/ \E p \in DOMAIN panelInfo, active \in BOOLEAN : ViewStateChanged(p, active)
    \/ \E watcher \in fsWatchers : DocumentWatchFired(watcher)
    \/ \E watcher \in fsWatchers : ReferenceWatchFired(watcher)
    \/ \E p \in DOMAIN panelInfo, message \in Messages : ReceiveMessage(p, message)
    \/ \E f \in Documents, content \in Texts : EditDocument(f, content)
    \/ \E path \in Volatile : ResourceChanged(path)

Spec == Init /\ [][Next]_vars

(***************************************************************************)
(* What the claims speak of.                                               *)
(***************************************************************************)
\* The effects e of a handler's output, in order.
Emitted(output, e) == SelectSeq(output, LAMBDA x : x.e = e)

\* The number of exceptions the handler's output reports.
Thrown(output) == Len(Emitted(output, "throw"))

\* The panels bound to document f that are not disposed.
PanelsOf(f) == {p \in DOMAIN panelInfo : panelInfo[p].textEditor = f}

\* The last step ran openPanel for document f.
OpenedPanel(f) ==
    /\ turn'.op = "openPanel"
    /\ turn'.p \in DOMAIN panelInfo'
    /\ panelInfo'[turn'.p].textEditor = f

\* No document has two panels, and the registry names the panels in use.
OnePanelPerIdentity ==
    /\ \A f \in Documents : Cardinality(PanelsOf(f)) <= 1
    /\ \A f \in DOMAIN _panels : PanelsOf(f) = {_panels[f]}
    /\ \A p \in DOMAIN panelInfo : panelInfo[p].textEditor \in DOMAIN _panels

(***************************************************************************)
(* C1.  Whatever events have been handled, no document has two panels, and *)
(* the registry names exactly the panels that are not disposed; openPanel  *)
(* for a document that has a registered panel creates no panel and works   *)
(* on that same panel.                                                     *)
(***************************************************************************)
C1_AtMostOnePanel ==
    [][/\ OnePanelPerIdentity'
       /\ \A f \in DOMAIN _panels :
            OpenedPanel(f) =>
                /\ turn'.p = _panels[f]
                /\ _panels' = _panels
                /\ DOMAIN panelInfo' = DOMAIN panelInfo
                /\ Emitted(out', "createWebviewPanel") = <<>>]_vars

\* openPanel has run again for a document whose panel was registered.
C1_Witness ==
    /\ turn.op = "openPanel"
    /\ panelInfo[turn.p].updates >= 2
    /\ Emitted(out, "createWebviewPanel") = <<>>
    /\ Cardinality(DOMAIN panelInfo) = 2

\* The paths of the panel's watchers, in the order of the list.
WatchPaths(p) ==
    [i \in 1..Len(panelInfo[p]._watchers) |-> panelInfo[p]._watchers[i].path]

\* The FSWatcher objects made for panel p that are open.
OpenWatchers(p) == {watcher \in fsWatchers : watcher.owner = p}

\* The paths the references of the panel's parsed tree name.
ReferencePaths(p) ==
    LET uris == watch(panelInfo[p]._jsonMap.data)
        directory == PathDirname(panelInfo[p].textEditor)
    IN  [i \in 1..Len(uris) |-> PathJoin(directory, uris[i])]

(***************************************************************************)
(* C2.  After one or more rebuilds of a panel's watchers, its open         *)
(* watchers are those of the last rebuild and no other: one for the        *)
(* document, then one for each external reference of the parsed tree; the  *)
(* watchers of earlier rebuilds are closed.                                *)
(***************************************************************************)
C2_WatchSetOfLastRebuild ==
    \A p \in DOMAIN panelInfo :
        panelInfo[p].updates >= 1 =>
            /\ OpenWatchers(p) = Range(panelInfo[p]._watchers)
            /\ Cardinality(OpenWatchers(p)) = Len(panelInfo[p]._watchers)
            /\ \A watcher \in OpenWatchers(p) : watcher.gen = panelInfo[p].updates
            /\ WatchPaths(p) = <<panelInfo[p].textEditor>> \o ReferencePaths(p)

(***************************************************************************)
(* C3.  A select message whose jsonPointer the panel's position map does   *)
(* not hold raises no error and asks the editor for no selection.          *)
(***************************************************************************)
C3_AbsentPointerIsSilent ==
    ( /\ turn.op = "message"
      /\ turn.message.command = "select"
      /\ turn.message.jsonPointer \notin DOMAIN panelInfo[turn.p]._jsonMap.pointers )
    => /\ Thrown(out) = 0
       /\ Emitted(out, "executeCommand") = <<>>

(***************************************************************************)
(* C4.  A message with an unknown command raises exactly one failure, and  *)
(* leaves the panel's readiness flag, watchers and position map and the    *)
(* registry as they were.                                                  *)
(***************************************************************************)
C4_UnknownCommandFailsOnce ==
    [][( /\ turn'.op = "message"
         /\ turn'.message.command \notin {"select", "setContext", "showErrorMessage",
                                          "showWarningMessage", "onReady"} )
       => /\ Thrown(out') = 1
          /\ panelInfo' = panelInfo
          /\ fsWatchers' = fsWatchers
          /\ _panels' = _panels]_vars

\* The last step created the panel turn'.p.
CreatedPanel ==
    /\ turn'.op = "openPanel"
    /\ turn'.p \notin DOMAIN panelInfo

\* The last step handled an onReady message of panel turn'.p.
HandledOnReady ==
    /\ turn'.op = "message"
    /\ turn'.message.command = "onReady"

RECURSIVE FieldsOf(_)
Fields(node) == FieldsOf(node.kids)

FieldsOf(kids) ==
    IF Len(kids) = 0 THEN <<>>
    ELSE <<Head(kids)>> \o Fields(Head(kids).v) \o FieldsOf(Tail(kids))

\* A field that names an external resource.
IsExternalUri(field) ==
    /\ field.k = "uri"
    /\ field.v.t = "string"
    /\ ~StartsWith(field.v.s, DataPrefix)

(***************************************************************************)
(* C6.  The reference watchers of a panel are those of the fields of its   *)
(* parsed tree, at any depth, whose key is uri and whose value is a string *)
(* that does not start with data:, each path joined to the document's      *)
(* directory; the document with the one image tex.png has exactly two      *)
(* watchers, the document's and that of tex.png in its directory.          *)
(***************************************************************************)
C6_ReferenceScan ==
    \A p \in DOMAIN panelInfo :
        LET references == SelectSeq(Fields(panelInfo[p]._jsonMap.data), IsExternalUri)
            watchers == SelectSeq(panelInfo[p]._watchers, LAMBDA x : x.kind = "reference")
            directory == PathDirname(panelInfo[p].textEditor)
        IN  /\ [i \in 1..Len(watchers) |-> watchers[i].path]
                 = [i \in 1..Len(references) |-> PathJoin(directory, references[i].v.s)]
            /\ panelInfo[p]._jsonMap.data = TreeV2 =>
                 WatchPaths(p) = <<panelInfo[p].textEditor, TexPngPath>>

\* The last step ran the onDidDispose callback of panel turn'.p.
DisposedPanel == turn'.op = "dispose"

(***************************************************************************)
(* C7.  When the disposal handler of a panel is over, every watcher of the *)
(* panel is closed and its list is empty, the registry has no entry for    *)
(* the panel's document, and the active panel is not the disposed panel.   *)
(* openPanel for a document without an entry creates a panel that is not   *)
(* one of the panels in use, not ready and refreshed once.                 *)
(***************************************************************************)
C7_Disposal ==
    [][/\ DisposedPanel =>
            LET p == turn'.p
                f == panelInfo[p].textEditor
            IN  /\ Range(panelInfo[p]._watchers) \cap fsWatchers' = {}
                /\ \A watcher \in fsWatchers' : watcher.owner # p
                /\ onDidDispose(World, f).panelInfo[p]._watchers = <<>>
                /\ f \notin DOMAIN _panels'
                /\ p \notin DOMAIN panelInfo'
                /\ _activePanel' # p
                /\ _activePanel' = FindActive([_panels |-> _panels', panelInfo |-> panelInfo'])
       /\ \A f \in Documents \ DOMAIN _panels :
            OpenedPanel(f) =>
                /\ turn'.p \notin Referenced(World)
                /\ Emitted(out', "createWebviewPanel")
                     = <<Effect("createWebviewPanel", turn'.p, "", <<>>)>>
                /\ _panels'[f] = turn'.p
                /\ panelInfo'[turn'.p].ready = "undefined"
                /\ panelInfo'[turn'.p].updates = 1]_vars

\* The active panel, which had watchers, has been disposed while the panel
\* of the other document is registered.
C7_Witness ==
    /\ turn.op = "dispose"
    /\ turn.p \notin DOMAIN panelInfo
    /\ Emitted(out, "onDidChangeActivePanel") # <<>>
    /\ DOMAIN _panels = {FileB}
    /\ fsWatchers # {}

\* What setActivePanel can emit.
IsActivePanelEffect(x) ==
    \/ x.e = "onDidChangeActivePanel"
    \/ x.e = "postMessage" /\ x.a = "updateDebugMode"
    \/ x.e = "executeCommand" /\ x.a = "setContext gltfDebugActive false"

\* The last step called setActivePanel(x).
CalledSetActivePanel(x) ==
    \/ /\ turn'.op = "openPanel"
       /\ Thrown(out') = 0
       /\ x = turn'.p
    \/ /\ turn'.op \in {"dispose", "viewState"}
       /\ x = FindActive([_panels |-> _panels', panelInfo |-> panelInfo'])

\* The last Len(tail) effects of output are tail.
EndsWith(output, tail) ==
    /\ Len(output) >= Len(tail)
    /\ SubSeq(output, Len(output) - Len(tail) + 1, Len(output)) = tail

(***************************************************************************)
(* C8.  setActivePanel(x) with x the tracked active panel changes nothing  *)
(* and emits nothing.  With another x the tracked panel becomes x, one     *)
(* change event carrying x is fired, and then updateDebugMode is posted to *)
(* x when x is a panel, and the context gltfDebugActive is set to false    *)
(* when x is undefined.  No other step changes the tracked panel.          *)
(***************************************************************************)
C8_SetActivePanel ==
    [][/\ \A x \in DOMAIN panelInfo' \cup {None} :
            CalledSetActivePanel(x) =>
                IF _activePanel = x
                THEN /\ _activePanel' = _activePanel
                     /\ SelectSeq(out', IsActivePanelEffect) = <<>>
                ELSE LET expected ==
                             << Effect("onDidChangeActivePanel", x, "", <<>>),
                                IF x # None
                                THEN Effect("postMessage", x, "updateDebugMode", <<>>)
                                ELSE Effect("executeCommand", None,
                                            "setContext gltfDebugActive false", <<>>) >>
                     IN  /\ _activePanel' = x
                         /\ SelectSeq(out', IsActivePanelEffect) = expected
                         /\ EndsWith(out', expected)
       /\ (\A x \in DOMAIN panelInfo' \cup {None} : ~CalledSetActivePanel(x)) =>
            /\ _activePanel' = _activePanel
            /\ SelectSeq(out', IsActivePanelEffect) = <<>>]_vars

\* The active panel has gone from one panel to undefined.
C8_Witness ==
    /\ turn.op = "viewState"
    /\ _activePanel = None
    /\ out = << Effect("onDidChangeActivePanel", None, "", <<>>),
                Effect("executeCommand", None, "setContext gltfDebugActive false", <<>>) >>
    /\ Cardinality(DOMAIN panelInfo) = 2

(***************************************************************************)
(* C9.  A refresh is not aborted by a referenced file that does not exist: *)
(* when openPanel or the document watcher's callback is over, the panel    *)
(* watches the document and every referenced file that exists, nothing has *)
(* been thrown, and openPanel has revealed the panel and made it the       *)
(* active panel.                                                           *)
(***************************************************************************)
C9_FailedWatchDoesNotAbort ==
    turn.op \in {"openPanel", "documentWatch"} =>
        LET p == turn.p
        IN  /\ WatchPaths(p) = <<panelInfo[p].textEditor>>
                                 \o SelectSeq(ReferencePaths(p), LAMBDA path : path \in disk)
            /\ Thrown(out) = 0
            /\ turn.op = "openPanel" =>
                 /\ Emitted(out, "reveal") = <<Effect("reveal", p, "", <<>>)>>
                 /\ _activePanel = p

(***************************************************************************)
(* C10.  When openPanel is over, for a new panel or a registered one, the  *)
(* panel holds the parse of the editor's text and the markup made from it, *)
(* its watchers are those of a rebuild made in this call, it has been      *)
(* revealed, it is registered for the document and it is the active panel. *)
(***************************************************************************)
C10_OpenPanelRefreshesAndReveals ==
    turn.op = "openPanel" =>
        LET p == turn.p
            f == panelInfo[p].textEditor
            map == parseJsonMap(documents[f])
        IN  /\ f \in DOMAIN _panels
            /\ _panels[f] = p
            /\ panelInfo[p]._jsonMap = map
            /\ panelInfo[p].html = formatHtml(gltfMajorVersion(map.data), documents[f],
                                              Append(PathDirname(f), Slash), PathBasename(f))
            /\ OpenWatchers(p) = Range(panelInfo[p]._watchers)
            /\ \A watcher \in OpenWatchers(p) : watcher.gen = panelInfo[p].updates
            /\ WatchPaths(p) = <<f>> \o ReferencePaths(p)
            /\ Emitted(out, "reveal") = <<Effect("reveal", p, "", <<>>)>>
            /\ _activePanel = p

\* The last step handled a select message of panel turn'.p.
HandledSelect ==
    /\ turn'.op = "message"
    /\ turn'.message.command = "select"

\* The text the last updatePanel of panel p parsed: the one it rendered.
LastParsed(info) == info.html.gltf

\* What one listener does with a select message when it reads the map `map`.
SelectOutcome(p, map, message, content) ==
    IF message.jsonPointer \notin DOMAIN map.pointers
    THEN Effect("throw", None, "TypeError", <<>>)
    ELSE Effect("executeCommand", p, "gltf.openGltfSelection",
                <<positionAt(content, map.pointers[message.jsonPointer].value.pos),
                  positionAt(content, map.pointers[message.jsonPointer].valueEnd.pos)>>)

(***************************************************************************)
(* C11.  The position map a panel holds is the one its last updatePanel    *)
(* built, and every listener that handles a select message, whichever      *)
(* updatePanel registered it, reads that map: each does what the map of    *)
(* the last parse gives for the pointer, never what an older map gave.     *)
(***************************************************************************)
C11_SelectReadsLatestMap ==
    [][/\ \A p \in DOMAIN panelInfo' :
            panelInfo'[p].updates >= 1 =>
                panelInfo'[p]._jsonMap = parseJsonMap(LastParsed(panelInfo'[p]))
       /\ HandledSelect =>
            LET p == turn'.p
                latest == parseJsonMap(LastParsed(panelInfo[p]))
                content == documents[panelInfo[p].textEditor]
            IN  \A i \in 1..Len(out') :
                    out'[i] = SelectOutcome(p, latest, turn'.message, content)]_vars

\* A select message has been answered from the map of a panel's second
\* parse, for a pointer only the text of that parse has.
C11_Witness ==
    /\ turn.op = "message"
    /\ turn.message = [command |-> "select", jsonPointer |-> "/buffers/b/uri"]
    /\ panelInfo[turn.p].updates >= 2
    /\ LastParsed(panelInfo[turn.p]) = TextV1
    /\ Emitted(out, "executeCommand") # <<>>

\* The last handler ran updatePanel for panel turn.p.
Refreshed == turn.op \in {"openPanel", "documentWatch"}

(***************************************************************************)
(* C12.  When the text updatePanel is given does not parse, so that the    *)
(* parser returns no tree, the refresh runs to its end: nothing is thrown, *)
(* the markup carries the raw text and version 1, the panel's only watcher *)
(* is the open watcher of the document, and the panel is registered.       *)
(***************************************************************************)
C12_ParseFailureStillRefreshes ==
    Refreshed =>
        LET p == turn.p
            f == panelInfo[p].textEditor
        IN  parseJsonMap(documents[f]).data = Undefined =>
                /\ Thrown(out) = 0
                /\ panelInfo[p]._jsonMap.data = Undefined
                /\ panelInfo[p].html.gltf = documents[f]
                /\ panelInfo[p].html.gltfMajorVersion = 1
                /\ Len(panelInfo[p]._watchers) = 1
                /\ panelInfo[p]._watchers[1].kind = "document"
                /\ panelInfo[p]._watchers[1].path = f
                /\ OpenWatchers(p) = Range(panelInfo[p]._watchers)
                /\ f \in DOMAIN _panels
                /\ _panels[f] = p

\* The document watcher has refreshed a panel, for the second time, with a
\* text that does not parse.
C12_Witness ==
    /\ turn.op = "documentWatch"
    /\ documents[panelInfo[turn.p].textEditor] = TextBad
    /\ panelInfo[turn.p].updates = 2
    /\ panelInfo[turn.p].html.gltf = TextBad
    /\ Len(panelInfo[turn.p]._watchers) = 1

(***************************************************************************)
(* C13.  However many times a panel has been refreshed, a message of its   *)
(* webview reaches onDidReceiveMessage once: the handler's output is that  *)
(* of one dispatch, so one onReady message fires the readiness event once  *)
(* and one select message asks the editor for at most one selection.       *)
(***************************************************************************)
C13_MessageDispatchedOnce ==
    turn.op = "message" =>
        /\ Len(out) = 1
        /\ turn.message.command = "onReady" =>
             Len(Emitted(out, "onDidChangePanelReady")) = 1
        /\ turn.message.command = "select" =>
             Len(Emitted(out, "executeCommand")) <= 1

(***************************************************************************)
(* C14.  When a select message is handled, the panel's parsed tree and     *)
(* position map are those of the text its document holds now: every edit   *)
(* of the text has been followed by a parse before the message, so the     *)
(* offsets select uses are offsets of the current text.                    *)
(***************************************************************************)
C14_SelectIndexesCurrentText ==
    ( /\ turn.op = "message"
      /\ turn.message.command = "select" )
    => LET p == turn.p
           content == documents[panelInfo[p].textEditor]
       IN  /\ panelInfo[p]._jsonMap = parseJsonMap(content)
           /\ \A i \in 1..Len(out) :
                out[i] = SelectOutcome(p, parseJsonMap(content), turn.message, content)

\* The paths a rebuild of the watchers of document f, parsed as map, is to
\* watch: the document, then the referenced files that exist.
RebuiltPaths(f, map) ==
    LET uris == watch(map.data)
        paths == [i \in 1..Len(uris) |-> PathJoin(PathDirname(f), uris[i])]
    IN  <<f>> \o SelectSeq(paths, LAMBDA path : path \in disk)

(***************************************************************************)
(* C15.  The callback of a reference watcher posts one refresh message to  *)
(* its panel's webview and changes nothing: not the parsed tree, the       *)
(* position map, the markup, the readiness flag or the watchers.  The      *)
(* callback of a document watcher runs the whole of updatePanel: it parses *)
(* the document's current text, renders it, closes the panel's watchers    *)
(* and makes the new ones, for the document and for each referenced file.  *)
(***************************************************************************)
C15_ReferenceRefreshVersusFullCycle ==
    [][/\ turn'.op = "referenceWatch" =>
            /\ out' = <<Effect("postMessage", turn'.p, "refresh", <<>>)>>
            /\ panelInfo' = panelInfo
            /\ fsWatchers' = fsWatchers
            /\ _panels' = _panels
       /\ turn'.op = "documentWatch" =>
            LET p == turn'.p
                f == panelInfo[p].textEditor
                map == parseJsonMap(documents[f])
                after == panelInfo'[p]
            IN  /\ after._jsonMap = map
                /\ after.html = formatHtml(gltfMajorVersion(map.data), documents[f],
                                           Append(PathDirname(f), Slash), PathBasename(f))
                /\ Range(panelInfo[p]._watchers) \cap fsWatchers' = {}
                /\ {watcher \in fsWatchers' : watcher.owner = p} = Range(after._watchers)
                /\ [i \in 1..Len(after._watchers) |-> after._watchers[i].path]
                     = RebuiltPaths(f, map)
                /\ Thrown(out') = 0]_vars

\* The registered panels whose list of watchers holds the watcher.
HoldersOf(watcher) ==
    {f \in DOMAIN _panels : watcher \in Range(panelInfo[_panels[f]]._watchers)}

(***************************************************************************)
(* C16.  When a handler is over, every open watcher is in the list of      *)
(* watchers of exactly one registered panel, the panel it was made for,    *)
(* and was made by that panel's last rebuild: no open watcher belongs to a *)
(* disposed panel or to an earlier rebuild.                                *)
(***************************************************************************)
C16_OpenWatchersAreOwned ==
    \A watcher \in fsWatchers :
        /\ Cardinality(HoldersOf(watcher)) = 1
        /\ \A f \in HoldersOf(watcher) :
             /\ _panels[f] = watcher.owner
             /\ watcher.gen = panelInfo[_panels[f]].updates

\* A rebuild of one panel's watchers has been cut short by a failure while
\* another panel has watchers too.
C16_Witness ==
    /\ turn.op = "documentWatch"
    /\ Thrown(out) = 1
    /\ panelInfo[turn.p].updates = 2
    /\ Cardinality(DOMAIN _panels) = 2
    /\ Cardinality(fsWatchers) >= 2

(***************************************************************************)
(* The computation of gltfMajorVersion on its own: updatePanel's test of   *)
(* map.data, applied to the trees a document text can parse to.            *)
(***************************************************************************)
\* The length of the version strings tried.
MaxVersionLen == 2

Null == [t |-> "null", s |-> <<>>, kids |-> <<>>]

\* The JSON number 2.
Number2 == [t |-> "number", s |-> <<"2">>, kids |-> <<>>]

VersionChars == {"1", "2", "."}

\* The values of the member version: strings, and what else JSON allows.
VersionValues ==
    {Str(chars) : chars \in UNION {[1..n -> VersionChars] : n \in 0..MaxVersionLen}}
        \cup {Str(<<"2", ".", "0">>), Str(<<"1", ".", "0">>)}
        \cup {Null, Number2,
              Arr(<<KV("0", Str(<<"2">>))>>), Arr(<<KV("0", Str(<<"1">>))>>),
              Obj(<<KV("0", Str(<<"2">>))>>)}

\* The values of the member asset: objects with or without a version.
AssetValues ==
    {Obj(<<KV("version", version)>>) : version \in VersionValues}
        \cup {Obj(<<KV("generator", Str(<<"2">>)), KV("version", version)>>) :
                 version \in VersionValues}
        \cup {Obj(<<>>), Obj(<<KV("generator", Str(<<"2">>))>>), Null, Str(<<"2">>)}

\* The values of map.data: no tree, or any JSON value.
Trees ==
    {Obj(<<KV("asset", asset)>>) : asset \in AssetValues}
        \cup {Obj(<<KV("asset", asset), KV("images", Arr(<<>>))>>) : asset \in AssetValues}
        \cup {Obj(<<KV("images", Arr(<<>>)), KV("asset", asset)>>) : asset \in AssetValues}
        \cup {Undefined, Null, Obj(<<>>), Obj(<<KV("version", Str(<<"2">>))>>),
              Arr(<<KV("0", Str(<<"2">>))>>), Str(<<"2">>)}

VersionInit ==
    /\ _panels = << >>
    /\ panelInfo = << >>
    /\ _activePanel = None
    /\ fsWatchers = {}
    /\ documents = [f \in Documents |-> TextEmbedded]
    /\ disk = Documents
    /\ out = <<>>
    /\ turn = Turn("init", None, NoMessage)

\* updatePanel computes the discriminator of the tree gltf.
ComputeVersion(gltf) ==
    /\ out' = <<Effect("gltfMajorVersion", None, gltf, <<gltfMajorVersion(gltf)>>)>>
    /\ turn' = Turn("gltfMajorVersion", None, NoMessage)
    /\ UNCHANGED <<_panels, panelInfo, _activePanel, fsWatchers, documents, disk>>

VersionNext == \E gltf \in Trees : ComputeVersion(gltf)

VersionSpec == VersionInit /\ [][VersionNext]_vars

\* The value has a first character, and it is 2.
FirstCharacterIs2(value) ==
    /\ value.t = "string"
    /\ Len(value.s) >= 1
    /\ value.s[1] = "2"

(***************************************************************************)
(* C17.  The discriminator updatePanel computes is 2 exactly when there is *)
(* a tree, it has an asset with a version, and the first character of the  *)
(* version is 2; in every other case it is 1.                              *)
(***************************************************************************)
C17_VersionDiscriminator ==
    turn.op = "gltfMajorVersion" =>
        LET gltf == out[1].a
            result == out[1].r[1]
            version == Member(Member(gltf, "asset"), "version")
        IN  /\ result \in {1, 2}
            /\ result = 2 <=> ( /\ gltf # Undefined
                                /\ FirstCharacterIs2(version) )

(***************************************************************************)
(* C18.  unwatchFiles called for a panel, whatever state the program is    *)
(* in, leaves the panel's list of watchers empty and every watcher that    *)
(* was in it closed, and touches no other watcher; called again for the    *)
(* same panel it changes nothing and raises nothing.                       *)
(***************************************************************************)
C18_UnwatchFilesIdempotent ==
    \A p \in DOMAIN panelInfo :
        LET once == unwatchFiles(World, p)
            twice == unwatchFiles(once, p)
        IN  /\ once.exc = ""
            /\ once.panelInfo[p]._watchers = <<>>
            /\ once.fsWatchers = fsWatchers \ Range(panelInfo[p]._watchers)
            /\ twice = once

\* unwatchFiles closes the two watchers of one panel and leaves open those
\* of the other panel; a second call finds nothing to close.
C18_Witness ==
    \E p \in DOMAIN panelInfo :
        /\ Len(panelInfo[p]._watchers) = 2
        /\ unwatchFiles(World, p).fsWatchers # {}
        /\ unwatchFiles(World, p).fsWatchers # fsWatchers
        /\ unwatchFiles(unwatchFiles(World, p), p).fsWatchers = unwatchFiles(World, p).fsWatchers

(***************************************************************************)
(* C19.  Whatever events have been handled, the tracked active panel is    *)
(* undefined or a panel of the registry that is not disposed.              *)
(***************************************************************************)
C19_ActivePanelIsRegistered ==
    \/ _activePanel = None
    \/ /\ _activePanel \in DOMAIN panelInfo
       /\ \E f \in DOMAIN _panels : _panels[f] = _activePanel

\* The tracked active panel has been disposed, and the tracked panel is now
\* the other panel, which is registered.
C19_Witness ==
    /\ turn.op = "dispose"
    /\ Emitted(out, "onDidChangeActivePanel") # <<>>
    /\ _activePanel # None
    /\ _activePanel # turn.p
    /\ _activePanel \in DOMAIN panelInfo

(***************************************************************************)
(* C20.  A panel that is ready stays ready as long as it is not disposed:  *)
(* no handler, whether openPanel again, the callback of a document or      *)
(* reference watcher, a change of view state or any message, takes the     *)
(* flag back; only a panel that is created is not ready.                   *)
(***************************************************************************)
C20_ReadyIsMonotonic ==
    [][/\ \A p \in DOMAIN panelInfo \cap DOMAIN panelInfo' :
            panelInfo[p].ready = "true" => panelInfo'[p].ready = "true"
       /\ \A p \in DOMAIN panelInfo' \ DOMAIN panelInfo :
            /\ turn'.op = "openPanel"
            /\ panelInfo'[p].ready = "undefined"]_vars

\* The document watcher has refreshed a panel that was ready, and the
\* panel is ready still.
C20_Witness ==
    /\ turn.op = "documentWatch"
    /\ panelInfo[turn.p].ready = "true"
    /\ panelInfo[turn.p].updates = 2

====
